---- MODULE Spec2Model ----
(***************************************************************************)
(* Model of the concurrent document-ingestion and status-polling routine   *)
(* of "3. Data Setup - Setting Up the Document Ingestion Pipeline.ipynb":  *)
(* ingest_document / ingest_all_documents (Phase 1) and                    *)
(* check_status_of_ingestion / check_files_status (Phase 2), with the      *)
(* tenacity retry decorator, the ThreadPoolExecutor, as_completed and the  *)
(* pandas left merge they are built on.                                    *)
(***************************************************************************)
EXTENDS Integers, Sequences, FiniteSets, TLC

\* ---- bounds of the model ------------------------------------------------
MaxFiles == 2
MaxWorkers == 2
MaxNameLen == 2
MaxCollections == 2
MaxAnswerLen == 2
MaxKeywordLen == 2
MaxKeywords == 2

\* ---- values --------------------------------------------------------------
None == "None"

\* The fileId the remote answers an upload of the file-th listed file with:
\* a fresh one, or (a remote that deduplicates) the one of the first file.
IdNames == <<"f1", "f2", "f3", "f4">>
RemoteFileIds(file) == {IdNames[file], IdNames[1]}

DatasetNames == <<"d1", "d2", "d3", "d4">>

Max(a, b) == IF a >= b THEN a ELSE b
Min(a, b) == IF a <= b THEN a ELSE b

RECURSIVE Pow(_, _)
Pow(b, n) == IF n <= 0 THEN 1 ELSE b * Pow(b, n - 1)

\* ---- exceptions ----------------------------------------------------------
\* An exception value: its class, its message and, for tenacity's
\* RetryError, the class and message of the outcome of the last attempt it
\* wraps.  The text of a transport failure (status code, reason, errno)
\* may differ from one attempt to the next, so it is identified by the
\* number of the attempt that raised it; the text of the other exceptions
\* is fixed by their class and the call's arguments (message 0).
NoExc == [type |-> None, msg |-> 0, last_type |-> None, last_msg |-> 0]
Exc(type, msg) == [type |-> type, msg |-> msg, last_type |-> None, last_msg |-> 0]
RetryError(last) == [type |-> "RetryError", msg |-> 0,
                     last_type |-> last.type, last_msg |-> last.msg]

\* str(e): an ordinary exception prints its own message; RetryError prints
\* "RetryError[<Future ... raised HTTPError>]", the class of the wrapped
\* exception without its message.
Str(e) ==
  IF e.type = "RetryError"
  THEN [wrapper |-> "RetryError", type |-> e.last_type, msg |-> 0]
  ELSE [wrapper |-> None, type |-> e.type, msg |-> e.msg]

\* requests.RequestException and its subclasses: what requests.post,
\* requests.get and raise_for_status raise
RequestException == {"RequestException", "ConnectionError", "Timeout", "HTTPError"}

\* ---- the retry policy (tenacity) ------------------------------------------
MaxAttempts == 3
WaitMultiplier == 1
WaitMin == 2
WaitMax == 10

StopAfterAttempt_OneMore(attempt_number) == attempt_number > MaxAttempts

StopAfterAttempt(attempt_number) == attempt_number >= MaxAttempts

WaitExponential_FromBase(attempt_number) ==
  Max(Max(0, WaitMin), Min(WaitMultiplier * Pow(2, attempt_number), WaitMax))

WaitExponential(attempt_number) ==
  Max(Max(0, WaitMin), Min(WaitMultiplier * Pow(2, attempt_number - 1), WaitMax))

RetryIfExceptionType_HTTPErrorOnly(type) == type = "HTTPError"

RetryIfExceptionType_AssertionToo(type) ==
  type \in RequestException \cup {"AssertionError"}

RetryIfExceptionType_Any(type) == TRUE

RetryIfExceptionType(type) == type \in RequestException

\* outcome of one attempt of the wrapped function
Returned(v) == [kind |-> "ok", type |-> None, msg |-> 0, val |-> v]
Failed(type, n) == [kind |-> "exc", type |-> type, msg |-> n, val |-> None]

\* a future: pending, finished with a result, or finished with an exception
Pending == [done |-> FALSE, ok |-> FALSE, val |-> None, exc |-> NoExc]
Ok(v) == [done |-> TRUE, ok |-> TRUE, val |-> v, exc |-> NoExc]
Raised(e) == [done |-> TRUE, ok |-> FALSE, val |-> None, exc |-> e]

RetryAction_RetryUntilStop(n, o) ==
  IF StopAfterAttempt(n)
  THEN (IF o.kind = "ok" THEN "return"
        ELSE IF ~RetryIfExceptionType(o.type) THEN "reraise" ELSE "retry_error")
  ELSE IF o.kind = "exc" /\ ~RetryIfExceptionType(o.type) THEN "reraise"
  ELSE "sleep"

RetryAction_StopFirst(n, o) ==
  IF StopAfterAttempt(n) THEN "retry_error"
  ELSE IF o.kind = "ok" THEN "return"
  ELSE IF ~RetryIfExceptionType(o.type) THEN "reraise"
  ELSE "sleep"

\* What the Retrying loop does when attempt number n of the wrapped
\* function has ended with outcome o: "return" the value, "reraise" the
\* exception unchanged (not an exception the policy retries), raise
\* "retry_error" (the stop condition holds), or "sleep" and try again.
RetryAction(n, o) ==
  IF o.kind = "ok" THEN "return"
  ELSE IF ~RetryIfExceptionType(o.type) THEN "reraise"
  ELSE IF StopAfterAttempt(n) THEN "retry_error"
  ELSE "sleep"

RetryResult_Reraise(n, o) ==
  IF o.kind = "ok" THEN Ok(o.val) ELSE Raised(Exc(o.type, o.msg))

\* The future of the wrapped call once the Retrying loop has stopped
\* (reraise is not set: giving up raises RetryError from the last exception).
RetryResult(n, o) ==
  CASE RetryAction(n, o) = "return" -> Ok(o.val)
    [] RetryAction(n, o) = "reraise" -> Raised(Exc(o.type, o.msg))
    [] OTHER -> Raised(RetryError(Exc(o.type, o.msg)))

\* ---- the two operations ---------------------------------------------------
\* The transport-layer exceptions a request raises: every class when one
\* call is observed alone; in a batch HTTPError stands for the class, since
\* the batch functions see a retried-out call only as a RetryError.
CallTransport == {"ConnectionError", "Timeout", "HTTPError"}
BatchTransport == {"HTTPError"}

\* One attempt of ingest_document on the file-th listed file, the n-th:
\* open() of a missing file raises FileNotFoundError, requests.post or
\* raise_for_status raise a transport exception, a body without "fileId"
\* raises KeyError; otherwise the remote's fileId.
IngestOutcomes(file, n, transport) ==
  {Failed("FileNotFoundError", 0), Failed("KeyError", 0)}
    \cup {Failed(x, n) : x \in transport}
    \cup {Returned(id) : id \in RemoteFileIds(file)}

IngestEffects_PostBeforeOpen(o) ==
  IF o.kind = "ok" THEN {[posted |-> TRUE, committed |-> TRUE]}
  ELSE {[posted |-> TRUE, committed |-> c] : c \in BOOLEAN}

\* What an attempt of ingest_document that ended with outcome o did to the
\* remote: open() is called before requests.post, so an attempt that open()
\* ended sent nothing; every other attempt called requests.post once.  The
\* stage stored the upload when the response carried its fileId; when the
\* POST, raise_for_status or the lookup of "fileId" raised, it may or may
\* not have stored it (a lost response, an error reported after the write).
IngestEffects(o) ==
  IF o.kind = "exc" /\ o.type = "FileNotFoundError"
  THEN {[posted |-> FALSE, committed |-> FALSE]}
  ELSE IF o.kind = "ok" THEN {[posted |-> TRUE, committed |-> TRUE]}
  ELSE {[posted |-> TRUE, committed |-> c] : c \in BOOLEAN}

\* a run of the transformation as the remote reports it
Run(run_id, status, dataset) ==
  [runId |-> run_id, status |-> status, datasetId |-> dataset, errors |-> None]
Unbound == [runId |-> 0, status |-> "<unbound>", datasetId |-> None, errors |-> None]

\* One attempt of check_status_of_ingestion of task t, the n-th:
\* requests.get or raise_for_status raise a transport exception, the assert
\* on page["total"] raises AssertionError; otherwise the first run of the
\* page.
StatusOutcomes(t, n, transport) ==
  {Failed("AssertionError", 0)}
    \cup {Failed(x, n) : x \in transport}
    \cup {Returned(Run(t, "completed", DatasetNames[t])), Returned(Run(t, "running", None))}

\* an attempt of check_status_of_ingestion sends one GET and stores nothing
StatusEffects(o) == {[posted |-> TRUE, committed |-> FALSE]}

\* ---- rows of the reports --------------------------------------------------
IngestSuccessRow_NoId(file, result) ==
  [file_path |-> file, file_id |-> None, status |-> "Success",
   error_type |-> None, error_message |-> None, error |-> Str(NoExc)]

IngestSuccessRow(file, result) ==
  [file_path |-> file, file_id |-> result, status |-> "Success",
   error_type |-> None, error_message |-> None, error |-> Str(NoExc)]

IngestFailureRow_WithId(file, e) ==
  [file_path |-> file, file_id |-> IdNames[file], status |-> "Ingestion Failed",
   error_type |-> None, error_message |-> None, error |-> Str(e)]

IngestFailureRow(file, e) ==
  [file_path |-> file, file_id |-> None, status |-> "Ingestion Failed",
   error_type |-> None, error_message |-> None, error |-> Str(e)]

\* except Exception: every exception class the operations raise derives
\* from Exception
ExceptionClasses ==
  RequestException \cup {"RetryError", "FileNotFoundError", "KeyError",
                         "AssertionError", "UnboundLocalError"}

ExceptException_RequestsOnly(type) == type \in RequestException

ExceptException(type) == type \in ExceptionClasses

HandleIngest_Overwrite(rows, file, future) ==
  LET row == IF future.ok THEN IngestSuccessRow(file, future.val)
             ELSE IngestFailureRow(file, future.exc)
  IN IF rows = <<>> THEN <<row>> ELSE [rows EXCEPT ![Len(rows)] = row]

HandleIngest_SuccessOnly(rows, file, future) ==
  IF future.ok
  THEN Append(rows, IngestSuccessRow(file, future.val))
  ELSE rows

\* body of the as_completed loop of ingest_all_documents
HandleIngest(rows, file, future) ==
  IF future.ok
  THEN Append(rows, IngestSuccessRow(file, future.val))
  ELSE Append(rows, IngestFailureRow(file, future.exc))

\* json.dumps(run.get("output", {}), indent=4)
OutputJson(r) == [null |-> FALSE, datasetId |-> r.datasetId]
NullOutput == [null |-> TRUE, datasetId |-> None]

StatusSuccessRow(file_id, r) ==
  [file_id |-> file_id, run_id |-> r.runId, status |-> r.status,
   output |-> OutputJson(r), error |-> Str(NoExc)]

\* the except branch reads the local variable run, bound by an earlier
\* iteration of the loop
StatusFailureRow(file_id, stale, e) ==
  [file_id |-> file_id, run_id |-> 0, status |-> stale.status,
   output |-> NullOutput, error |-> Str(e)]

RECURSIVE get_successful_document_ids_UntilFailure(_)
get_successful_document_ids_UntilFailure(df) ==
  IF df = <<>> \/ Head(df).status # "Success" THEN <<>>
  ELSE <<Head(df).file_id>> \o get_successful_document_ids_UntilFailure(Tail(df))

get_successful_document_ids_All(df) == [i \in 1..Len(df) |-> df[i].file_id]

\* df[df["status"] == "Success"]["file_id"].tolist()
RECURSIVE get_successful_document_ids(_)
get_successful_document_ids(df) ==
  IF df = <<>> THEN <<>>
  ELSE (IF Head(df).status = "Success" THEN <<Head(df).file_id>> ELSE <<>>)
         \o get_successful_document_ids(Tail(df))

\* one row of df.merge(status, on="file_id", how="left",
\* suffixes=("_ingestion", ""))
MergedRow(l, run_id, status, output, error) ==
  [file_path |-> l.file_path, file_id |-> l.file_id,
   status_ingestion |-> l.status, error_ingestion |-> l.error,
   run_id |-> run_id, status |-> status, output |-> output, error |-> error]

RECURSIVE MatchesOf(_, _)
MatchesOf(l, right) ==
  IF right = <<>> THEN <<>>
  ELSE (IF Head(right).file_id = l.file_id
        THEN <<MergedRow(l, Head(right).run_id, Head(right).status,
                         Head(right).output, Head(right).error)>>
        ELSE <<>>) \o MatchesOf(l, Tail(right))

RECURSIVE LeftMerge_Inner(_, _)
LeftMerge_Inner(left, right) ==
  IF left = <<>> THEN <<>>
  ELSE MatchesOf(Head(left), right) \o LeftMerge_Inner(Tail(left), right)

RECURSIVE LeftMerge(_, _)
LeftMerge(left, right) ==
  IF left = <<>> THEN <<>>
  ELSE (LET m == MatchesOf(Head(left), right)
        IN IF m = <<>>
           THEN <<MergedRow(Head(left), 0, None, NullOutput, Str(NoExc))>>
           ELSE m) \o LeftMerge(Tail(left), right)

\* status_df[status_df["status"] == "completed"]: the rows kept, each under
\* the index label it had in status_df (labels count from 1 here)
RECURSIVE LabelsWithStatus(_, _, _)
LabelsWithStatus(df, status, k) ==
  IF k > Len(df) THEN <<>>
  ELSE (IF df[k].status = status THEN <<k>> ELSE <<>>)
         \o LabelsWithStatus(df, status, k + 1)

Range(s) == {s[i] : i \in DOMAIN s}

\* get_successful_dataset_ids(df) on such a selection: df["output"][i] for i
\* in range(len(df)) looks the label i up (KeyError when the selection does
\* not hold it), json.loads fails on a null output (TypeError), and
\* .get("datasetId") reads the id.  The first failing i ends the loop.
get_successful_dataset_ids(df, labels) ==
  LET n == Len(labels)
      missing == {i \in 1..n : i \notin Range(labels)}
      null == {i \in 1..n : i \in Range(labels) /\ df[i].output.null}
      bad == missing \cup null
      first == CHOOSE i \in bad : \A j \in bad : i <= j
  IN IF bad = {}
     THEN [ok |-> TRUE, ids |-> [i \in 1..n |-> df[i].output.datasetId], exc |-> NoExc]
     ELSE [ok |-> FALSE, ids |-> <<>>,
           exc |-> Exc(IF first \in missing THEN "KeyError" ELSE "TypeError", 0)]

\* ---- store identifiers (createStoreId) --------------------------------------
\* A string is the sequence of its characters; these are the store names and
\* namespaces the calls are made with.
Alphabet == {"a", "-"}
Strings == UNION {[1..k -> Alphabet] : k \in 1..MaxNameLen}

\* an argument left out of the call: a value that is no string of characters
Undefined == <<"undefined">>

APPLICATION_STORES_NAMESPACE ==
  <<"9", "8", "2", "1", "5", "f", "1", "6", "-", "4", "6", "4", "5", "-",
    "4", "0", "4", "f", "-", "8", "9", "0", "7", "-",
    "9", "4", "6", "9", "d", "9", "5", "4", "3", "9", "e", "2">>

\* the default value of the namespace parameter applies when it is left out
Namespace(namespace) ==
  IF namespace = Undefined THEN APPLICATION_STORES_NAMESPACE ELSE namespace

\* `${namespace}-${storeName}`
createStoreId(storeName, namespace) ==
  Namespace(namespace) \o <<"-">> \o storeName

\* ---- configuration ---------------------------------------------------------
\* the globals the two operations read and the arguments the batch functions
\* hand to every call
Configuration ==
  [TOKEN |-> "token", DATA_PLATFORM_URL |-> "url", stage_id |-> "stage",
   transformation_id |-> "transformation", ingestion_context |-> "context"]

\* ---- collections (get_or_create_collection) ---------------------------------
CollectionNames == {IdNames[i] : i \in 1..MaxCollections}

\* a requests.Response: the request it answers and its status code; the
\* local variable response before its first assignment
Response(method, code) == [method |-> method, code |-> code]
NoResponse == [method |-> "<unbound>", code |-> 0]
StatusCodes == {200, 404, 500}

\* f"{collection} created", f"{collection} exists" and
\* f"{e}, Response: {response}"
CollectionCreated(collection) ==
  [text |-> "created", collection |-> collection, e |-> Str(NoExc), response |-> NoResponse]
CollectionExists(collection) ==
  [text |-> "exists", collection |-> collection, e |-> Str(NoExc), response |-> NoResponse]
ErrorString(e, response) ==
  [text |-> "error", collection |-> None, e |-> Str(e), response |-> response]

\* ---- evaluation (QATask, QaEvaluationLogic) --------------------------------
\* A text is the sequence of its characters, upper or lower case.
Letters == {"a", "A"}
Texts(n) == UNION {[1..k -> Letters] : k \in 0..n}

\* str.lower()
LowerChar(c) == IF c = "A" THEN "a" ELSE c
Lower(text) == [i \in 1..Len(text) |-> LowerChar(text[i])]

\* keyword in text: text holds keyword as a substring
In(keyword, text) ==
  \E i \in 0..(Len(text) - Len(keyword)) :
    \A j \in 1..Len(keyword) : text[i + j] = keyword[j]

\* answer: str | None
Answer(text) == [null |-> FALSE, text |-> text]
NoAnswer == [null |-> TRUE, text |-> <<>>]

\* Output(answer, sources)
Output(answer, sources) == [answer |-> answer, sources |-> sources]
NoOutput == [answer |-> NoAnswer, sources |-> "<none>"]

\* What the POST to the skill gives: the request raises, the body is not
\* the skill's output (an error body without "answer"), the skill found no
\* documents and returned Output(answer=None, sources=None), or the skill
\* answered.
SkillResponses ==
  {[kind |-> "request_failed", answer |-> NoAnswer],
   [kind |-> "error_body", answer |-> NoAnswer],
   [kind |-> "no_documents", answer |-> NoAnswer]}
    \cup {[kind |-> "answer", answer |-> Answer(a)] : a \in Texts(MaxAnswerLen)}

\* QATask.do_run: Output(answer=response["answer"], sources=response["sources"]),
\* or Output(answer=None, sources=None) from the except branch
do_run(response) ==
  IF response.kind \in {"request_failed", "error_body"} THEN Output(NoAnswer, None)
  ELSE IF response.kind = "no_documents" THEN Output(response.answer, None)
  ELSE Output(response.answer, "sources")

\* QaEvaluation(matched_keywords, missing_keywords, match_score, passed);
\* the score len(matched) / len(required) is kept as the pair of the two
\* lengths, 1.0 for an empty list as 1 / 1
QaEvaluation(matched, missing, score, passed) ==
  [matched_keywords |-> matched, missing_keywords |-> missing,
   match_score |-> score, passed |-> passed]
NoEvaluation == QaEvaluation(<<>>, <<>>, <<0, 1>>, FALSE)

\* self.threshold = 0.5, as the fraction 1 / 2
Threshold == <<1, 2>>

\* match_score >= self.threshold
AtLeast(score, threshold) == score[1] * threshold[2] >= threshold[1] * score[2]

\* QaEvaluationLogic.do_evaluate_single_output: output.answer.lower() raises
\* AttributeError when the answer is None
do_evaluate_single_output(required_keywords, output) ==
  IF output.answer.null
  THEN [exc |-> Exc("AttributeError", 0), evaluation |-> NoEvaluation]
  ELSE LET output_text == Lower(output.answer.text)
           Matches(keyword) == In(Lower(keyword), output_text)
           Misses(keyword) == ~In(Lower(keyword), output_text)
           matched_keywords == SelectSeq(required_keywords, Matches)
           missing_keywords == SelectSeq(required_keywords, Misses)
           match_score == IF required_keywords # <<>>
                          THEN <<Len(matched_keywords), Len(required_keywords)>>
                          ELSE <<1, 1>>
       IN [exc |-> NoExc,
           evaluation |-> QaEvaluation(matched_keywords, missing_keywords, match_score,
                                       AtLeast(match_score, Threshold))]

\* ---- state ----------------------------------------------------------------
VARIABLES
  listing,        \* os.listdir(directory_path): the file names, in listing order
  max_workers,    \* the max_workers argument of both batch functions
  phase,          \* 1: ingest_all_documents, 2: check_files_status,
                  \* 3: get_successful_dataset_ids
  pc,             \* position of the driver thread
  items,          \* the argument of each submitted call, in submission order
  submitted,      \* number of executor.submit calls made so far
  queue,          \* the executor's work queue
  st,             \* per task: "new", "queued", "running", "waiting", "finished"
  attempt_number, \* per task: the attempt its running call is at (0: no call)
  future,         \* per task: the future returned by submit
  early,          \* as_completed: the futures already finished when it was
                  \*   called and not yet yielded (listed in completion order)
  late,           \* the futures finished since as_completed was called, or
                  \*   before it is called, in completion order
  nyielded,       \* number of futures as_completed has yielded
  results,        \* the results / status_results list of the running phase
  run,            \* the local variable run of check_files_status
  df_results,     \* the DataFrame returned by ingest_all_documents
  status_df,      \* the DataFrame returned by check_files_status
  successful_dataset_ids, \* the list returned by get_successful_dataset_ids
  raised,         \* the exception that left the running batch function
  r_op,           \* one retry-wrapped call observed alone: the function called
  r_item,         \*   the item it is called on
  r_st,           \*   "idle", "running", "waiting" or "finished"
  r_attempts,     \*   the outcome of every attempt made so far
  r_waits,        \*   the backoff waits slept so far
  r_future,       \*   what the call returned or raised
  r_requests,     \*   number of HTTP requests its attempts have sent
  r_commits,      \*   number of uploads of its file the stage has stored
  c_args,         \* createStoreId: the (storeName, namespace) of two calls
  c_ids,          \*   the identifiers the calls made so far returned
  config,         \* TOKEN, DATA_PLATFORM_URL and the arguments every call shares
  g_collection,   \* get_or_create_collection: the collection argument
  g_listed,       \*   the collections the Document Index lists for the namespace
  g_pc,           \*   position in the function
  g_response,     \*   the local variable response
  g_e,            \*   the exception the except clause caught
  g_puts,         \*   number of PUT requests sent
  g_result,       \*   the string returned
  g_raised,       \*   the exception that left the function
  q_response,     \* QATask / QaEvaluationLogic: what the skill call gives
  q_keywords,     \*   example.expected_output.keywords
  q_pc,           \*   "idle", "run", "evaluate", "returned" or "raised"
  q_output,       \*   the Output do_run returned
  q_evaluation,   \*   the QaEvaluation returned
  q_raised        \*   the exception that left do_evaluate_single_output

pool == <<items, submitted, queue, st, attempt_number, future, early, late, nyielded>>

batch == <<listing, max_workers, phase, pc, pool, results, run, df_results,
           status_df, successful_dataset_ids, raised>>

call == <<r_op, r_item, r_st, r_attempts, r_waits, r_future, r_requests, r_commits>>

store == <<c_args, c_ids>>

coll == <<g_collection, g_listed, g_pc, g_response, g_e, g_puts, g_result, g_raised>>

qa == <<q_response, q_keywords, q_pc, q_output, q_evaluation, q_raised>>

vars == <<batch, call, store, config, coll, qa>>

\* no evaluation is being run
EvaluationIdle ==
  /\ q_response = [kind |-> "none", answer |-> NoAnswer]
  /\ q_keywords = <<>>
  /\ q_pc = "idle"
  /\ q_output = NoOutput
  /\ q_evaluation = NoEvaluation
  /\ q_raised = NoExc

\* get_or_create_collection is not being called
CollectionIdle ==
  /\ g_collection = None
  /\ g_listed = {}
  /\ g_pc = "idle"
  /\ g_response = NoResponse
  /\ g_e = NoExc
  /\ g_puts = 0
  /\ g_result = None
  /\ g_raised = NoExc

Tasks == 1..Len(items)

\* the calls holding a worker thread: the wrapped function runs from its
\* first attempt to its return, backoff sleeps included
InFlight == {t \in Tasks : st[t] \in {"running", "waiting"}}

WorkerAvailable_ExecutingOnly(inflight, w) ==
  Cardinality({t \in inflight : st[t] = "running"}) < w

WorkerAvailable_AllIdle(inflight, w) == inflight = {}

WorkerAvailable_OneMore(inflight, w) == Cardinality(inflight) <= w

\* an idle worker exists, or the executor may still spawn one
WorkerAvailable(inflight, w) == Cardinality(inflight) < w

Init ==
  /\ listing \in {[i \in 1..n |-> i] : n \in 0..MaxFiles}
  /\ max_workers \in 1..MaxWorkers
  /\ phase = 1
  /\ pc = "submit"
  /\ items = listing
  /\ submitted = 0
  /\ queue = <<>>
  /\ st = [t \in 1..Len(listing) |-> "new"]
  /\ attempt_number = [t \in 1..Len(listing) |-> 0]
  /\ future = [t \in 1..Len(listing) |-> Pending]
  /\ early = <<>>
  /\ late = <<>>
  /\ nyielded = 0
  /\ results = <<>>
  /\ run = Unbound
  /\ df_results = <<>>
  /\ status_df = <<>>
  /\ successful_dataset_ids = <<>>
  /\ raised = NoExc
  /\ r_op = None
  /\ r_item = 0
  /\ r_st = "idle"
  /\ r_attempts = <<>>
  /\ r_waits = <<>>
  /\ r_future = Pending
  /\ r_requests = 0
  /\ r_commits = 0
  /\ c_args = <<>>
  /\ c_ids = <<>>
  /\ config = Configuration
  /\ CollectionIdle
  /\ EvaluationIdle

\* ---- the executor ----------------------------------------------------------
\* executor.submit(...) of the next item of the comprehension
Submit ==
  /\ pc = "submit"
  /\ submitted < Len(items)
  /\ submitted' = submitted + 1
  /\ queue' = Append(queue, submitted + 1)
  /\ st' = [st EXCEPT ![submitted + 1] = "queued"]
  /\ UNCHANGED <<listing, max_workers, phase, pc, items, attempt_number, future,
                 early, late, nyielded, results, run, df_results, status_df, successful_dataset_ids, raised, call, store, config, coll, qa>>

\* a worker thread takes the head of the work queue and calls the wrapped
\* function: the first attempt begins
WorkerStart ==
  /\ queue # <<>>
  /\ WorkerAvailable(InFlight, max_workers)
  /\ st' = [st EXCEPT ![Head(queue)] = "running"]
  /\ attempt_number' = [attempt_number EXCEPT ![Head(queue)] = 1]
  /\ queue' = Tail(queue)
  /\ UNCHANGED <<listing, max_workers, phase, pc, items, submitted, future, early, late, nyielded, results, run, df_results, status_df,
                 successful_dataset_ids, raised, call, store, config, coll, qa>>

AttemptEnds_RefreshToken(t, o) ==
  /\ IF RetryAction(attempt_number[t], o) = "sleep"
     THEN /\ st' = [st EXCEPT ![t] = "waiting"]
          /\ UNCHANGED <<attempt_number, future, late>>
     ELSE /\ future' = [future EXCEPT ![t] = RetryResult(attempt_number[t], o)]
          /\ st' = [st EXCEPT ![t] = "finished"]
          /\ attempt_number' = [attempt_number EXCEPT ![t] = 0]
          /\ late' = Append(late, t)
  /\ UNCHANGED <<listing, max_workers, phase, pc, items, submitted, queue, early,
                 nyielded, results, run, df_results, status_df, successful_dataset_ids, raised, call, store, coll, qa>>
  /\ config' = IF o.kind = "exc" /\ o.type = "HTTPError"
                THEN [config EXCEPT !.TOKEN = "refreshed"]
                ELSE config

\* the attempt in progress of task t ends with outcome o, and the Retrying
\* loop returns, raises or goes to sleep
AttemptEnds(t, o) ==
  /\ IF RetryAction(attempt_number[t], o) = "sleep"
     THEN /\ st' = [st EXCEPT ![t] = "waiting"]
          /\ UNCHANGED <<attempt_number, future, late>>
     ELSE /\ future' = [future EXCEPT ![t] = RetryResult(attempt_number[t], o)]
          /\ st' = [st EXCEPT ![t] = "finished"]
          /\ attempt_number' = [attempt_number EXCEPT ![t] = 0]
          /\ late' = Append(late, t)
  /\ UNCHANGED <<listing, max_workers, phase, pc, items, submitted, queue, early,
                 nyielded, results, run, df_results, status_df, successful_dataset_ids, raised, call, store, config, coll, qa>>

Attempt ==
  \E t \in Tasks :
    /\ st[t] = "running"
    /\ \E o \in (IF phase = 1
                 THEN IngestOutcomes(items[t], attempt_number[t], BatchTransport)
                 ELSE StatusOutcomes(t, attempt_number[t], BatchTransport)) :
         AttemptEnds(t, o)

\* the backoff sleep ends and the next attempt begins
BackoffEnds ==
  \E t \in Tasks :
    /\ st[t] = "waiting"
    /\ st' = [st EXCEPT ![t] = "running"]
    /\ attempt_number' = [attempt_number EXCEPT ![t] = @ + 1]
    /\ UNCHANGED <<listing, max_workers, phase, pc, items, submitted, queue, future,
                   early, late, nyielded, results, run, df_results, status_df, successful_dataset_ids,
                   raised, call, store, config, coll, qa>>

\* concurrent.futures.as_completed(future_to_file) is called: the futures
\* already finished are collected into a set
AsCompleted ==
  /\ pc = "submit"
  /\ submitted = Len(items)
  /\ pc' = "collect"
  /\ early' = late
  /\ late' = <<>>
  /\ UNCHANGED <<listing, max_workers, phase, items, submitted, queue, st, attempt_number,
                 future, nyielded, results, run, df_results, status_df, successful_dataset_ids, raised, call, store, config, coll, qa>>

CanYield_Newest(t) ==
  IF early # <<>> THEN t \in Range(early) ELSE late # <<>> /\ t = late[Len(late)]

\* the future as_completed may yield next: any of those that had finished
\* when it was called (it keeps them in a set), and after them the later
\* ones in completion order
CanYield(t) ==
  IF early # <<>> THEN t \in Range(early) ELSE late # <<>> /\ t = Head(late)

Yielded(t) ==
  /\ early' = LET Other(u) == u # t IN SelectSeq(early, Other)
  /\ late' = IF early # <<>> THEN late ELSE Tail(late)
  /\ nyielded' = nyielded + 1

\* ---- Phase 1: ingest_all_documents ------------------------------------------
CollectIngest ==
  /\ phase = 1
  /\ pc = "collect"
  /\ \E t \in Tasks :
       /\ CanYield(t)
       /\ Yielded(t)
       /\ IF future[t].ok \/ ExceptException(future[t].exc.type)
          THEN /\ results' = HandleIngest(results, items[t], future[t])
               /\ UNCHANGED <<pc, raised>>
          ELSE /\ pc' = "raising"
               /\ raised' = future[t].exc
               /\ UNCHANGED results
  /\ UNCHANGED <<listing, max_workers, phase, items, submitted, queue, st,
                 attempt_number, future, run, df_results, status_df, successful_dataset_ids, call, store, config, coll, qa>>

ReturnIngest_FirstCompleted ==
  /\ phase = 1
  /\ pc = "collect"
  /\ nyielded >= Min(1, Len(items))
  /\ pc' = "returned"
  /\ df_results' = results
  /\ UNCHANGED <<listing, max_workers, phase, pool, results, run, status_df, successful_dataset_ids, raised, call, store, config, coll, qa>>

ReturnIngest_Early ==
  /\ phase = 1
  /\ pc = "collect"
  /\ pc' = "returned"
  /\ df_results' = results
  /\ UNCHANGED <<listing, max_workers, phase, pool, results, run, status_df, successful_dataset_ids, raised, call, store, config, coll, qa>>

\* the loop is over, the with block shuts the executor down and
\* pd.DataFrame(results) is returned
ReturnIngest ==
  /\ phase = 1
  /\ pc = "collect"
  /\ nyielded = Len(items)
  /\ pc' = "returned"
  /\ df_results' = results
  /\ UNCHANGED <<listing, max_workers, phase, pool, results, run, status_df, successful_dataset_ids, raised, call, store, config, coll, qa>>

\* ---- Phase 2: check_files_status --------------------------------------------
CheckFilesStatus_Early ==
  /\ phase = 1
  /\ pc \in {"collect", "returned"}
  /\ phase' = 2
  /\ results' = <<>>
  /\ run' = Unbound
  /\ submitted' = 0
  /\ queue' = <<>>
  /\ early' = <<>>
  /\ late' = <<>>
  /\ nyielded' = 0
  /\ IF df_results = <<>>
     THEN /\ pc' = "raised"
          /\ raised' = Exc("KeyError", 0)
          /\ items' = <<>>
     ELSE /\ pc' = "submit"
          /\ raised' = raised
          /\ items' = get_successful_document_ids(df_results)
  /\ st' = [t \in 1..Len(items') |-> "new"]
  /\ attempt_number' = [t \in 1..Len(items') |-> 0]
  /\ future' = [t \in 1..Len(items') |-> Pending]
  /\ UNCHANGED <<listing, max_workers, df_results, status_df, successful_dataset_ids, call, store, config, coll, qa>>

\* status_df = check_files_status(transformation_id, df_results): the
\* successful file ids are selected (an empty DataFrame has no "status"
\* column) and a new executor is created
CheckFilesStatus ==
  /\ phase = 1
  /\ pc = "returned"
  /\ phase' = 2
  /\ results' = <<>>
  /\ run' = Unbound
  /\ submitted' = 0
  /\ queue' = <<>>
  /\ early' = <<>>
  /\ late' = <<>>
  /\ nyielded' = 0
  /\ IF df_results = <<>>
     THEN /\ pc' = "raised"
          /\ raised' = Exc("KeyError", 0)
          /\ items' = <<>>
     ELSE /\ pc' = "submit"
          /\ raised' = raised
          /\ items' = get_successful_document_ids(df_results)
  /\ st' = [t \in 1..Len(items') |-> "new"]
  /\ attempt_number' = [t \in 1..Len(items') |-> 0]
  /\ future' = [t \in 1..Len(items') |-> Pending]
  /\ UNCHANGED <<listing, max_workers, df_results, status_df, successful_dataset_ids, call, store, config, coll, qa>>

\* body of the as_completed loop of check_files_status
CollectStatus ==
  /\ phase = 2
  /\ pc = "collect"
  /\ \E t \in Tasks :
       /\ CanYield(t)
       /\ Yielded(t)
       /\ IF future[t].ok
          THEN /\ run' = future[t].val
               /\ results' = Append(results, StatusSuccessRow(items[t], future[t].val))
               /\ UNCHANGED <<pc, raised>>
          ELSE IF ~ExceptException(future[t].exc.type)
          THEN /\ pc' = "raising"
               /\ raised' = future[t].exc
               /\ UNCHANGED <<run, results>>
          ELSE IF run = Unbound
          THEN /\ pc' = "raising"
               /\ raised' = Exc("UnboundLocalError", 0)
               /\ UNCHANGED <<run, results>>
          ELSE /\ results' = Append(results, StatusFailureRow(items[t], run, future[t].exc))
               /\ UNCHANGED <<run, pc, raised>>
  /\ UNCHANGED <<listing, max_workers, phase, items, submitted, queue, st, attempt_number,
                 future, df_results, status_df, successful_dataset_ids, call, store, config, coll, qa>>

\* an exception leaves the with block: shutdown(wait=True) lets every
\* submitted call run to its end, then the exception reaches the caller
ExitRaising ==
  /\ pc = "raising"
  /\ \A t \in Tasks : st[t] = "finished"
  /\ pc' = "raised"
  /\ UNCHANGED <<listing, max_workers, phase, pool, results, run, df_results,
                 status_df, successful_dataset_ids, raised, call, store, config, coll, qa>>

\* the loop is over: df.merge(pd.DataFrame(status_results), on="file_id",
\* how="left"); a DataFrame built from an empty list has no "file_id" column
ReturnStatus ==
  /\ phase = 2
  /\ pc = "collect"
  /\ nyielded = Len(items)
  /\ IF results = <<>>
     THEN /\ pc' = "raised"
          /\ raised' = Exc("KeyError", 0)
          /\ UNCHANGED status_df
     ELSE /\ pc' = "returned"
          /\ status_df' = LeftMerge(df_results, results)
          /\ UNCHANGED raised
  /\ UNCHANGED <<listing, max_workers, phase, pool, results, run, df_results, successful_dataset_ids, call, store, config, coll, qa>>

\* ---- the extraction ----------------------------------------------------------
\* successful_dataset_ids = get_successful_dataset_ids(
\*     status_df[status_df["status"] == "completed"])
GetSuccessfulDatasetIds ==
  /\ phase = 2
  /\ pc = "returned"
  /\ phase' = 3
  /\ LET r == get_successful_dataset_ids(status_df,
                                         LabelsWithStatus(status_df, "completed", 1))
     IN IF r.ok
        THEN /\ successful_dataset_ids' = r.ids
             /\ UNCHANGED <<pc, raised>>
        ELSE /\ pc' = "raised"
             /\ raised' = r.exc
             /\ UNCHANGED successful_dataset_ids
  /\ UNCHANGED <<listing, max_workers, pool, results, run, df_results, status_df, call, store, config, coll, qa>>

Next ==
  \/ Submit
  \/ WorkerStart
  \/ Attempt
  \/ BackoffEnds
  \/ AsCompleted
  \/ CollectIngest
  \/ ReturnIngest
  \/ CheckFilesStatus
  \/ CollectStatus
  \/ ExitRaising
  \/ ReturnStatus
  \/ GetSuccessfulDatasetIds

Spec == Init /\ [][Next]_vars

\* ---- one retry-wrapped call, observed alone ---------------------------------
\* The call of ingest_document or check_status_of_ingestion made by a worker,
\* with the history of its attempts and sleeps kept.
InitRetry ==
  /\ listing = <<>>
  /\ max_workers = 1
  /\ phase = 1
  /\ pc = "submit"
  /\ items = <<>>
  /\ submitted = 0
  /\ queue = <<>>
  /\ st = <<>>
  /\ attempt_number = <<>>
  /\ future = <<>>
  /\ early = <<>>
  /\ late = <<>>
  /\ nyielded = 0
  /\ results = <<>>
  /\ run = Unbound
  /\ df_results = <<>>
  /\ status_df = <<>>
  /\ successful_dataset_ids = <<>>
  /\ raised = NoExc
  /\ r_op \in {"ingest_document", "check_status_of_ingestion"}
  /\ r_item \in 1..MaxFiles
  /\ r_st = "running"
  /\ r_attempts = <<>>
  /\ r_waits = <<>>
  /\ r_future = Pending
  /\ r_requests = 0
  /\ r_commits = 0
  /\ c_args = <<>>
  /\ c_ids = <<>>
  /\ config = Configuration
  /\ CollectionIdle
  /\ EvaluationIdle

RetryAttempt ==
  /\ r_st = "running"
  /\ \E o \in (IF r_op = "ingest_document"
               THEN IngestOutcomes(r_item, Len(r_attempts) + 1, CallTransport)
               ELSE StatusOutcomes(r_item, Len(r_attempts) + 1, CallTransport)) :
       \E e \in (IF r_op = "ingest_document" THEN IngestEffects(o) ELSE StatusEffects(o)) :
         LET n == Len(r_attempts) + 1
         IN /\ r_attempts' = Append(r_attempts, o)
            /\ r_requests' = r_requests + (IF e.posted THEN 1 ELSE 0)
            /\ r_commits' = r_commits + (IF e.committed THEN 1 ELSE 0)
            /\ IF RetryAction(n, o) = "sleep"
               THEN /\ r_waits' = Append(r_waits, WaitExponential(n))
                    /\ r_st' = "waiting"
                    /\ UNCHANGED r_future
               ELSE /\ r_future' = RetryResult(n, o)
                    /\ r_st' = "finished"
                    /\ UNCHANGED r_waits
  /\ UNCHANGED <<batch, store, config, coll, qa, r_op, r_item>>

RetrySleepEnds ==
  /\ r_st = "waiting"
  /\ r_st' = "running"
  /\ UNCHANGED <<batch, store, config, coll, qa, r_op, r_item, r_attempts, r_waits, r_future, r_requests, r_commits>>

NextRetry ==
  \/ RetryAttempt
  \/ RetrySleepEnds

SpecRetry == InitRetry /\ [][NextRetry]_vars

\* ---- createStoreId called twice ----------------------------------------------
InitStore ==
  /\ listing = <<>>
  /\ max_workers = 1
  /\ phase = 1
  /\ pc = "submit"
  /\ items = <<>>
  /\ submitted = 0
  /\ queue = <<>>
  /\ st = <<>>
  /\ attempt_number = <<>>
  /\ future = <<>>
  /\ early = <<>>
  /\ late = <<>>
  /\ nyielded = 0
  /\ results = <<>>
  /\ run = Unbound
  /\ df_results = <<>>
  /\ status_df = <<>>
  /\ successful_dataset_ids = <<>>
  /\ raised = NoExc
  /\ r_op = None
  /\ r_item = 0
  /\ r_st = "idle"
  /\ r_attempts = <<>>
  /\ r_waits = <<>>
  /\ r_future = Pending
  /\ r_requests = 0
  /\ r_commits = 0
  /\ c_args \in [1..2 -> [storeName : Strings, namespace : Strings \cup {Undefined}]]
  /\ c_ids = <<>>
  /\ config = Configuration
  /\ CollectionIdle
  /\ EvaluationIdle

\* the next call of createStoreId returns
CreateStoreId ==
  /\ Len(c_ids) < Len(c_args)
  /\ LET a == c_args[Len(c_ids) + 1]
     IN c_ids' = Append(c_ids, createStoreId(a.storeName, a.namespace))
  /\ UNCHANGED <<batch, call, config, coll, qa, c_args>>

NextStore == CreateStoreId

SpecStore == InitStore /\ [][NextStore]_vars

\* ---- get_or_create_collection -------------------------------------------------
InitCollection ==
  /\ listing = <<>>
  /\ max_workers = 1
  /\ phase = 1
  /\ pc = "submit"
  /\ items = <<>>
  /\ submitted = 0
  /\ queue = <<>>
  /\ st = <<>>
  /\ attempt_number = <<>>
  /\ future = <<>>
  /\ early = <<>>
  /\ late = <<>>
  /\ nyielded = 0
  /\ results = <<>>
  /\ run = Unbound
  /\ df_results = <<>>
  /\ status_df = <<>>
  /\ successful_dataset_ids = <<>>
  /\ raised = NoExc
  /\ r_op = None
  /\ r_item = 0
  /\ r_st = "idle"
  /\ r_attempts = <<>>
  /\ r_waits = <<>>
  /\ r_future = Pending
  /\ r_requests = 0
  /\ r_commits = 0
  /\ c_args = <<>>
  /\ c_ids = <<>>
  /\ config = Configuration
  /\ g_collection \in CollectionNames
  /\ g_listed \in SUBSET CollectionNames
  /\ g_pc = "get"
  /\ g_response = NoResponse
  /\ g_e = NoExc
  /\ g_puts = 0
  /\ g_result = None
  /\ g_raised = NoExc
  /\ EvaluationIdle

\* response = requests.get(...): the request fails in the transport and
\* nothing is assigned, or response is bound to the answer
RequestsGet ==
  /\ g_pc = "get"
  /\ \/ \E x \in {"ConnectionError", "Timeout"} :
          /\ g_e' = Exc(x, 0)
          /\ g_pc' = "except"
          /\ UNCHANGED g_response
     \/ \E code \in StatusCodes :
          /\ g_response' = Response("GET", code)
          /\ g_pc' = "get_raise_for_status"
          /\ UNCHANGED g_e
  /\ UNCHANGED <<batch, call, store, config, qa, g_collection, g_listed, g_puts, g_result, g_raised>>

\* response.raise_for_status() and response.json() of the listing
ListCollections ==
  /\ g_pc = "get_raise_for_status"
  /\ IF g_response.code # 200
     THEN /\ g_e' = Exc("HTTPError", 0)
          /\ g_pc' = "except"
     ELSE \/ /\ g_e' = Exc("JSONDecodeError", 0)
             /\ g_pc' = "except"
          \/ /\ g_pc' = "listed"
             /\ UNCHANGED g_e
  /\ UNCHANGED <<batch, call, store, config, qa, g_collection, g_listed, g_response, g_puts, g_result, g_raised>>

\* if len(collections_list) == 0 or collection not in collections_list
CollectionListed ==
  /\ g_pc = "listed"
  /\ IF g_listed = {} \/ g_collection \notin g_listed
     THEN /\ g_pc' = "put"
          /\ UNCHANGED g_result
     ELSE /\ g_pc' = "returned"
          /\ g_result' = CollectionExists(g_collection)
  /\ UNCHANGED <<batch, call, store, config, qa, g_collection, g_listed, g_response, g_e, g_puts, g_raised>>

\* response = requests.put(...)
RequestsPut ==
  /\ g_pc = "put"
  /\ g_puts' = g_puts + 1
  /\ \/ \E x \in {"ConnectionError", "Timeout"} :
          /\ g_e' = Exc(x, 0)
          /\ g_pc' = "except"
          /\ UNCHANGED g_response
     \/ \E code \in StatusCodes :
          /\ g_response' = Response("PUT", code)
          /\ g_pc' = "put_raise_for_status"
          /\ UNCHANGED g_e
  /\ UNCHANGED <<batch, call, store, config, qa, g_collection, g_listed, g_result, g_raised>>

\* response.raise_for_status() of the PUT, then return f"{collection} created"
CollectionPut ==
  /\ g_pc = "put_raise_for_status"
  /\ IF g_response.code # 200
     THEN /\ g_e' = Exc("HTTPError", 0)
          /\ g_pc' = "except"
          /\ UNCHANGED g_result
     ELSE /\ g_pc' = "returned"
          /\ g_result' = CollectionCreated(g_collection)
          /\ UNCHANGED g_e
  /\ UNCHANGED <<batch, call, store, config, qa, g_collection, g_listed, g_response, g_puts, g_raised>>

\* except Exception as e: return f"{e}, Response: {response}"; reading the
\* local response before its first assignment raises UnboundLocalError
ExceptReturn ==
  /\ g_pc = "except"
  /\ IF g_response = NoResponse
     THEN /\ g_pc' = "raised"
          /\ g_raised' = Exc("UnboundLocalError", 0)
          /\ UNCHANGED g_result
     ELSE /\ g_pc' = "returned"
          /\ g_result' = ErrorString(g_e, g_response)
          /\ UNCHANGED g_raised
  /\ UNCHANGED <<batch, call, store, config, qa, g_collection, g_listed, g_response, g_e, g_puts>>

NextCollection ==
  \/ RequestsGet
  \/ ListCollections
  \/ CollectionListed
  \/ RequestsPut
  \/ CollectionPut
  \/ ExceptReturn

SpecCollection == InitCollection /\ [][NextCollection]_vars

\* ---- one example run and evaluated ----------------------------------------------
InitEvaluation ==
  /\ listing = <<>>
  /\ max_workers = 1
  /\ phase = 1
  /\ pc = "submit"
  /\ items = <<>>
  /\ submitted = 0
  /\ queue = <<>>
  /\ st = <<>>
  /\ attempt_number = <<>>
  /\ future = <<>>
  /\ early = <<>>
  /\ late = <<>>
  /\ nyielded = 0
  /\ results = <<>>
  /\ run = Unbound
  /\ df_results = <<>>
  /\ status_df = <<>>
  /\ successful_dataset_ids = <<>>
  /\ raised = NoExc
  /\ r_op = None
  /\ r_item = 0
  /\ r_st = "idle"
  /\ r_attempts = <<>>
  /\ r_waits = <<>>
  /\ r_future = Pending
  /\ r_requests = 0
  /\ r_commits = 0
  /\ c_args = <<>>
  /\ c_ids = <<>>
  /\ config = Configuration
  /\ CollectionIdle
  /\ q_response \in SkillResponses
  /\ q_keywords \in UNION {[1..n -> Texts(MaxKeywordLen) \ {<<>>}] : n \in 0..MaxKeywords}
  /\ q_pc = "run"
  /\ q_output = NoOutput
  /\ q_evaluation = NoEvaluation
  /\ q_raised = NoExc

\* output = QATask().do_run(input, task_span)
DoRun ==
  /\ q_pc = "run"
  /\ q_output' = do_run(q_response)
  /\ q_pc' = "evaluate"
  /\ UNCHANGED <<batch, call, store, config, coll, q_response, q_keywords, q_evaluation, q_raised>>

\* QaEvaluationLogic().do_evaluate_single_output(example, output)
DoEvaluateSingleOutput ==
  /\ q_pc = "evaluate"
  /\ LET r == do_evaluate_single_output(q_keywords, q_output)
     IN IF r.exc = NoExc
        THEN /\ q_pc' = "returned"
             /\ q_evaluation' = r.evaluation
             /\ UNCHANGED q_raised
        ELSE /\ q_pc' = "raised"
             /\ q_raised' = r.exc
             /\ UNCHANGED q_evaluation
  /\ UNCHANGED <<batch, call, store, config, coll, q_response, q_keywords, q_output>>

NextEvaluation ==
  \/ DoRun
  \/ DoEvaluateSingleOutput

SpecEvaluation == InitEvaluation /\ [][NextEvaluation]_vars

\* ---- the claims -----------------------------------------------------------
IngestReturned == phase = 2 \/ (phase = 1 /\ pc = "returned")

RowsOf(df, file) == {k \in 1..Len(df) : df[k].file_path = file}

\* C1: the report returned by ingest_all_documents has exactly N rows, exactly
\* one for every listed file name, whatever the workers, outcomes and
\* interleaving were.
C1_IngestReportComplete ==
  IngestReturned =>
    /\ Len(df_results) = Len(listing)
    /\ \A i \in 1..Len(listing) : Cardinality(RowsOf(df_results, listing[i])) = 1

C1_Witness ==
  /\ phase = 1 /\ pc = "returned"
  /\ Len(listing) >= 2
  /\ \E i, j \in 1..Len(df_results) :
       df_results[i].status = "Success" /\ df_results[j].status = "Ingestion Failed"

\* C2 (as claimed): the merged report returned by check_files_status has
\* exactly one row for every row of the Phase-1 report, also when the remote
\* gave two files the same fileId.
C2_MergedOneRowPerItem ==
  (phase = 2 /\ pc = "returned") =>
    /\ Len(status_df) = Len(df_results)
    /\ \A i \in 1..Len(df_results) :
         Cardinality(RowsOf(status_df, df_results[i].file_path)) = 1

\* C3: no upload's exception leaves ingest_all_documents: the batch function
\* never raises, and on return every file whose call raised has a row with
\* file_id null, status "Ingestion Failed" and the text of the error.
C3_IngestFailuresCaptured ==
  /\ phase = 1 => pc \notin {"raising", "raised"}
  /\ (phase = 1 /\ pc = "returned") =>
       \A t \in Tasks :
         ~future[t].ok =>
           \E k \in 1..Len(df_results) :
             /\ df_results[k].file_path = items[t]
             /\ df_results[k].file_id = None
             /\ df_results[k].status = "Ingestion Failed"
             /\ df_results[k].error = Str(future[t].exc)

C3_Witness ==
  /\ phase = 1 /\ pc = "returned"
  /\ \E t, u \in Tasks :
       /\ future[t].done /\ future[t].exc.type = "RetryError"
       /\ future[u].done /\ future[u].exc.type = "FileNotFoundError"

\* C4 (as claimed): a failed status check is recorded as a row and never makes
\* check_files_status raise, whichever future completes first.
C4_StatusFailureDoesNotAbort ==
  (phase = 2 /\ \E t \in Tasks : future[t].done /\ ~future[t].ok) =>
    pc \notin {"raising", "raised"}

\* C5: in either phase the number of calls in flight never exceeds
\* max_workers.
C5_InFlightBounded == Cardinality(InFlight) <= max_workers

C5_Witness ==
  /\ Len(items) > max_workers
  /\ Cardinality(InFlight) = max_workers
  /\ queue # <<>>
  /\ phase = 2

AllTransient(log) ==
  \A i \in DOMAIN log : log[i].kind = "exc" /\ log[i].type \in RequestException

Permanent(o) == o.kind = "exc" /\ o.type \notin RequestException

\* C6: a call whose every attempt fails transiently gives up after exactly 3
\* attempts: it does not finish earlier and no 4th attempt is made.
C6_ExhaustedAfterThree ==
  /\ Len(r_attempts) <= 3
  /\ (r_st = "finished" /\ AllTransient(r_attempts)) =>
       Len(r_attempts) = 3 /\ r_future.done /\ ~r_future.ok
  /\ (Len(r_attempts) = 3 /\ AllTransient(r_attempts)) => r_st = "finished"

C6_Witness ==
  r_st = "finished" /\ Len(r_attempts) = 3 /\ AllTransient(r_attempts)

\* C7: a permanent failure ends the call at the attempt that raised it, with
\* that exception and without a further sleep; raised by the first attempt
\* it means exactly one attempt and no backoff wait.
C7_PermanentSurfacedImmediately ==
  \A i \in DOMAIN r_attempts :
    Permanent(r_attempts[i]) =>
      /\ i = Len(r_attempts)
      /\ r_st = "finished"
      /\ ~r_future.ok
      /\ r_future.exc = Exc(r_attempts[i].type, r_attempts[i].msg)
      /\ Len(r_waits) = i - 1

C7_Witness ==
  r_st = "finished" /\ Len(r_attempts) = 1 /\ Permanent(r_attempts[1]) /\ r_waits = <<>>

\* C8: transient failures on attempts 1 and 2 and a success on attempt 3:
\* the call returns that success, after exactly 3 attempts.
C8_SuccessOnThirdAttempt ==
  (Len(r_attempts) >= 3 /\ AllTransient(SubSeq(r_attempts, 1, 2))
     /\ r_attempts[3].kind = "ok") =>
    /\ Len(r_attempts) = 3
    /\ r_st = "finished"
    /\ r_future.ok
    /\ r_future.val = r_attempts[3].val

C8_Witness ==
  /\ Len(r_attempts) = 3 /\ AllTransient(SubSeq(r_attempts, 1, 2))
  /\ r_attempts[3].kind = "ok"

\* C9 (as claimed): every wait is between 2 and 10, the first is 2, and the
\* wait before attempt 3 is greater than the wait before attempt 2 unless
\* that one is already 10.
C9_BackoffDoubles ==
  /\ \A i \in DOMAIN r_waits : 2 <= r_waits[i] /\ r_waits[i] <= 10
  /\ r_waits # <<>> => r_waits[1] = 2
  /\ Len(r_waits) >= 2 => (r_waits[2] > r_waits[1] \/ r_waits[1] = 10)

\* C9 (amended): every wait is between 2 and 10 and the waits never decrease;
\* the wait before attempt 2 and the wait before attempt 3 are both 2.
C9_BackoffBounded ==
  /\ \A i \in DOMAIN r_waits : 2 <= r_waits[i] /\ r_waits[i] <= 10
  /\ \A i, j \in DOMAIN r_waits : i <= j => r_waits[i] <= r_waits[j]
  /\ \A i \in DOMAIN r_waits : i <= 2 => r_waits[i] = 2

C9_Witness == Len(r_waits) = 2 /\ r_st = "finished"

\* C10 (as claimed): when all 3 attempts fail transiently, the exception the
\* caller gets, and the text in the failure row, are those of the final
\* attempt's own exception.
C10_FinalFailureSurfaced ==
  (r_st = "finished" /\ Len(r_attempts) = 3 /\ AllTransient(r_attempts)) =>
    /\ r_future.exc = Exc(r_attempts[3].type, r_attempts[3].msg)
    /\ IngestFailureRow(r_item, r_future.exc).error
         = Str(Exc(r_attempts[3].type, r_attempts[3].msg))

\* C10 (amended): when all 3 attempts fail transiently, the caller gets a
\* RetryError wrapping the final attempt's exception, and the failure row
\* records the text of the RetryError: the class of the final attempt's
\* exception, not its message.
C10_RetryErrorSurfaced ==
  (r_st = "finished" /\ Len(r_attempts) = 3 /\ AllTransient(r_attempts)) =>
    /\ ~r_future.ok
    /\ r_future.exc.type = "RetryError"
    /\ r_future.exc.last_type = r_attempts[3].type
    /\ r_future.exc.last_msg = r_attempts[3].msg
    /\ IngestFailureRow(r_item, r_future.exc).error
         = [wrapper |-> "RetryError", type |-> r_attempts[3].type, msg |-> 0]

C10_Witness ==
  /\ r_st = "finished" /\ Len(r_attempts) = 3 /\ AllTransient(r_attempts)
  /\ r_attempts[2].type # r_attempts[3].type


Started(t) == st[t] \in {"running", "waiting", "finished"}

\* C11: a status query exists, and so is started, only for a file id carried
\* by a "Success" row of the Phase-1 report; none for a file whose upload
\* failed (its file_id is null).
C11_PollOnlySuccesses ==
  phase = 2 =>
    \A t \in Tasks :
      /\ items[t] # None
      /\ \E k \in 1..Len(df_results) :
           df_results[k].status = "Success" /\ df_results[k].file_id = items[t]

C11_Witness ==
  /\ phase = 2
  /\ \E k \in 1..Len(df_results) : df_results[k].status = "Ingestion Failed"
  /\ \E t \in Tasks : Started(t)


\* C12 (as claimed): every Phase-1 success has a row in the merged report,
\* and where its status lookup failed the row's status and output are null.
C12_FailedLookupHasNullStatus ==
  (phase = 2 /\ pc = "returned") =>
    /\ \A i \in 1..Len(df_results) :
         df_results[i].status = "Success" =>
           RowsOf(status_df, df_results[i].file_path) # {}
    /\ \A t \in Tasks :
         ~future[t].ok =>
           \A k \in 1..Len(status_df) :
             (status_df[k].file_id = items[t] /\ status_df[k].error = Str(future[t].exc)) =>
               status_df[k].status = None /\ status_df[k].output = NullOutput


\* C13: in the merged report check_files_status returns, every item that
\* failed Phase 1 has its row, with null Phase-2 fields, next to the rows of
\* the items that succeeded.
C13_FailedItemsKept ==
  (phase = 2 /\ pc = "returned") =>
    \A i \in 1..Len(df_results) :
      df_results[i].status = "Ingestion Failed" =>
        /\ Cardinality(RowsOf(status_df, df_results[i].file_path)) = 1
        /\ \A k \in RowsOf(status_df, df_results[i].file_path) :
             /\ status_df[k].status_ingestion = "Ingestion Failed"
             /\ status_df[k].error_ingestion = df_results[i].error
             /\ status_df[k].status = None
             /\ status_df[k].output = NullOutput
             /\ status_df[k].run_id = 0

C13_Witness ==
  /\ phase = 2 /\ pc = "returned"
  /\ \E i, j \in 1..Len(df_results) :
       df_results[i].status = "Ingestion Failed" /\ df_results[j].status = "Success"


\* the datasetId of each completed row of the merged report, in row order
CompletedDatasetIds(df) ==
  LET labels == LabelsWithStatus(df, "completed", 1)
  IN [i \in 1..Len(labels) |-> df[labels[i]].output.datasetId]

\* C14 (as claimed): the extraction over the rows with status "completed"
\* raises nothing and returns exactly the datasetId of each completed row, in
\* row order, also when a row with another status lies before or between the
\* completed rows.
C14_ExtractionReturnsCompletedIds ==
  phase = 3 =>
    /\ pc = "returned"
    /\ successful_dataset_ids = CompletedDatasetIds(status_df)


\* C15: when every upload returns, every row of the Phase-1 report has status
\* "Success" and carries the file id the upload returned, for every pool size
\* and every interleaving of the workers.
C15_AllSucceedAllSuccessRows ==
  (phase = 1 /\ pc = "returned" /\ \A t \in Tasks : future[t].ok) =>
    /\ Len(df_results) = Len(listing)
    /\ \A k \in 1..Len(df_results) :
         /\ df_results[k].status = "Success"
         /\ df_results[k].file_id # None
         /\ df_results[k].file_id = future[df_results[k].file_path].val

C15_Witness ==
  /\ phase = 1 /\ pc = "returned"
  /\ Len(listing) >= 2
  /\ max_workers >= 2
  /\ \A t \in Tasks : future[t].ok
  /\ df_results[1].file_path = 2


\* C16: when ingest_all_documents or check_files_status has returned, no
\* submitted operation is queued, running or waiting in backoff, and no later
\* step changes the report that was returned.
C16_QuiescentAtReturn ==
  [][ /\ pc' = "returned" =>
           /\ queue' = <<>>
           /\ \A t \in 1..Len(items') : st'[t] = "finished"
      /\ (pc = "returned" \/ phase >= 2) => df_results' = df_results
      /\ (pc = "returned" /\ phase >= 2) => status_df' = status_df
    ]_vars

C16_Witness ==
  /\ phase = 3
  /\ pc = "returned"
  /\ Len(status_df) >= 2
  /\ \E k \in 1..Len(status_df) : status_df[k].error_ingestion.wrapper = "RetryError"


\* C17 (as claimed): every run of ingest_all_documents followed by
\* check_files_status over a non-empty listing ends with the merged report
\* returned, whatever subset of the items fails; in particular neither
\* routine ends with an exception.
C17_RunEndsInMergedReport ==
  Len(listing) >= 1 => ~(phase \in {1, 2} /\ pc = "raised")


SuccessRows(df) == {k \in 1..Len(df) : df[k].status = "Success"}

\* C18: a Phase-1 failure of one item blocks no other item: every listed file
\* is attempted in Phase 1, and every file that succeeded Phase 1 has its
\* Phase-2 status query submitted and run to its end; only the failed items
\* are left out of Phase 2.
C18_FailureIsolatesOneItem ==
  /\ (phase = 1 /\ pc = "returned") =>
       /\ \A t \in Tasks : st[t] = "finished" /\ future[t].done
       /\ \A f \in 1..Len(listing) : \E k \in 1..Len(df_results) : df_results[k].file_path = f
  /\ (phase >= 2 /\ pc # "raised") =>
       /\ Len(items) = Cardinality(SuccessRows(df_results))
       /\ \A k \in SuccessRows(df_results) :
            \E t \in 1..Len(items) : items[t] = df_results[k].file_id
  /\ (phase >= 2 /\ pc = "returned") =>
       \A t \in 1..Len(items) : st[t] = "finished" /\ future[t].done

C18_Witness ==
  /\ phase = 2 /\ pc = "returned"
  /\ df_results[1].status = "Ingestion Failed"
  /\ \E k \in 1..Len(df_results) : df_results[k].status = "Success"
  /\ \A t \in 1..Len(items) : st[t] = "finished"


\* C19 (as claimed): when ingest_all_documents or check_files_status ends
\* with an exception, no upload and no status query of that call has been
\* started.
C19_RaisesOnlyBeforeItemWork ==
  (phase \in {1, 2} /\ pc = "raised") => \A t \in Tasks : ~Started(t)


\* the attempt i of the call ended it
EndedAt(i) == r_st = "finished" /\ i = Len(r_attempts)

\* C20 (as claimed): in check_status_of_ingestion a non-2xx response
\* (HTTPError) and an empty page (the assertion on page["total"]) are both
\* retried: such a failure on attempt 1 or 2 does not end the call, and there
\* are at most 3 attempts.
C20_EmptyPageRetried ==
  r_op = "check_status_of_ingestion" =>
    /\ Len(r_attempts) <= 3
    /\ \A i \in DOMAIN r_attempts :
         (i < 3 /\ r_attempts[i].kind = "exc"
            /\ r_attempts[i].type \in {"HTTPError", "AssertionError"}) => ~EndedAt(i)

\* C20 (amended): in check_status_of_ingestion a non-2xx response is retried,
\* up to 3 attempts; an empty page is not: its AssertionError ends the call at
\* once and reaches the caller as it is.
C20_OnlyHttpErrorRetried ==
  r_op = "check_status_of_ingestion" =>
    /\ Len(r_attempts) <= 3
    /\ \A i \in DOMAIN r_attempts :
         /\ (i < 3 /\ r_attempts[i].kind = "exc" /\ r_attempts[i].type = "HTTPError")
              => ~EndedAt(i)
         /\ (r_attempts[i].kind = "exc" /\ r_attempts[i].type = "AssertionError")
              => /\ EndedAt(i)
                 /\ r_future = Raised(Exc("AssertionError", r_attempts[i].msg))

C20_Witness ==
  /\ r_op = "check_status_of_ingestion"
  /\ r_st = "finished"
  /\ Len(r_attempts) = 2
  /\ r_attempts[1].kind = "exc" /\ r_attempts[1].type = "HTTPError"
  /\ r_attempts[2].kind = "exc" /\ r_attempts[2].type = "AssertionError"


\* the attempts among the first i that ended in a given exception class
AttemptsRaising(type, i) ==
  {j \in 1..i : r_attempts[j].kind = "exc" /\ r_attempts[j].type = type}

\* C21: a file that cannot be opened is a permanent failure of
\* ingest_document: the attempt that open() ends sends no HTTP request and is
\* the last one, no backoff wait follows it, and the FileNotFoundError
\* becomes that file's failure row as it is; raised by the first attempt it
\* means exactly one attempt, no request and no wait.
C21_MissingFileIsPermanent ==
  r_op = "ingest_document" =>
    \A i \in DOMAIN r_attempts :
      (r_attempts[i].kind = "exc" /\ r_attempts[i].type = "FileNotFoundError") =>
        /\ EndedAt(i)
        /\ r_requests = i - 1
        /\ Len(r_waits) = i - 1
        /\ r_future = Raised(Exc("FileNotFoundError", r_attempts[i].msg))
        /\ HandleIngest(<<>>, r_item, r_future)
             = <<IngestFailureRow(r_item, Exc("FileNotFoundError", r_attempts[i].msg))>>

C21_Witness ==
  /\ r_op = "ingest_document"
  /\ r_st = "finished"
  /\ Len(r_attempts) = 1
  /\ r_attempts[1].type = "FileNotFoundError"
  /\ r_requests = 0
  /\ r_waits = <<>>


\* C22: in ingest_document a connection error, a timeout and a non-2xx
\* status are each retried (on attempt 1 or 2 they do not end the call),
\* every attempt that opened the file sends the POST again, and a 2xx
\* response without "fileId" (KeyError) ends the call at once, unchanged.
C22_TransportFailuresRetried ==
  r_op = "ingest_document" =>
    /\ \A i \in DOMAIN r_attempts :
         /\ (i < MaxAttempts /\ r_attempts[i].kind = "exc"
               /\ r_attempts[i].type \in CallTransport) => ~EndedAt(i)
         /\ (r_attempts[i].kind = "exc" /\ r_attempts[i].type = "KeyError") =>
              /\ EndedAt(i)
              /\ r_future = Raised(Exc("KeyError", r_attempts[i].msg))
    /\ r_requests = Len(r_attempts)
                      - Cardinality(AttemptsRaising("FileNotFoundError", Len(r_attempts)))

C22_Witness ==
  /\ r_op = "ingest_document"
  /\ r_st = "finished"
  /\ Len(r_attempts) = 3
  /\ r_attempts[1].type = "ConnectionError"
  /\ r_attempts[2].type = "Timeout"
  /\ r_attempts[3].type = "KeyError"
  /\ r_requests = 3


\* C23 (as claimed): over all attempts of one ingest_document call the stage
\* stores at most one upload of the file, also when a POST was stored but
\* its response was lost or reported as an error.
C23_AtMostOneCommittedUpload ==
  r_op = "ingest_document" => r_commits <= 1


\* C25: the first attempt that succeeds ends the call: it is the last
\* attempt, its value is what the call returns, and no backoff wait was
\* slept after it (there is one wait per failed attempt before it, no more).
C25_FirstSuccessReturned ==
  \A i \in DOMAIN r_attempts :
    r_attempts[i].kind = "ok" =>
      /\ EndedAt(i)
      /\ r_future = Ok(r_attempts[i].val)
      /\ Len(r_waits) = i - 1
      /\ \A j \in 1..(i - 1) : r_attempts[j].kind = "exc"

C25_Witness ==
  /\ r_st = "finished"
  /\ Len(r_attempts) = 2
  /\ r_attempts[1].kind = "exc"
  /\ r_attempts[2].kind = "ok"
  /\ Len(r_waits) = 1


\* the (namespace, storeName) pair a call is made with
StorePair(a) == <<Namespace(a.namespace), a.storeName>>

\* C24 (as claimed): two calls of createStoreId whose (namespace, storeName)
\* pairs differ return different identifiers, and a call without a namespace
\* returns the store name prefixed with the application namespace.
C24_StoreIdsDistinct ==
  /\ \A n \in DOMAIN c_ids :
       c_args[n].namespace = Undefined =>
         c_ids[n] = APPLICATION_STORES_NAMESPACE \o <<"-">> \o c_args[n].storeName
  /\ Len(c_ids) = 2 =>
       (StorePair(c_args[1]) # StorePair(c_args[2]) => c_ids[1] # c_ids[2])


\* C26: the status query of a file id is scheduled only after the upload
\* that produced the id has returned successfully: check_files_status starts
\* when ingest_all_documents has returned with every upload finished, each
\* of its items is the value an upload returned, and a status query begins to
\* run only for an id that a "Success" row of the returned report carries.
C26_UploadBeforeStatusQuery ==
  [][ /\ (phase = 1 /\ phase' = 2) =>
           /\ pc = "returned"
           /\ \A u \in Tasks : st[u] = "finished"
           /\ \A t \in 1..Len(items') :
                /\ st'[t] = "new"
                /\ \E u \in Tasks : future[u].ok /\ future[u].val = items'[t]
      /\ \A t \in 1..Len(items') :
           (phase' = 2 /\ st'[t] = "running") =>
             \E k \in 1..Len(df_results') :
               /\ df_results'[k].status = "Success"
               /\ df_results'[k].file_id = items'[t]
    ]_vars

C26_Witness ==
  /\ phase = 2
  /\ Len(items) = 2
  /\ \E t \in Tasks : st[t] = "running"
  /\ \E k \in 1..Len(df_results) : df_results[k].status = "Success"


\* C27: no step of an upload or status-query worker, a failed or retried
\* attempt included, changes the token, the base URL, the stage id, the
\* transformation id or the ingestion context the calls share.
C27_ConfigurationReadOnly ==
  [][config' = config]_vars

C27_Witness ==
  /\ phase = 2
  /\ \E t \in Tasks : st[t] = "running" /\ attempt_number[t] >= 2
  /\ \E k \in 1..Len(df_results) : df_results[k].error.wrapper = "RetryError"
  /\ config = Configuration


\* C28: no append to the results list of a phase is lost or overwritten,
\* whatever the interleaving of the workers: while the driver collects and
\* when it returns, the list holds one row per future handled so far, and a
\* step of the same phase only ever adds rows after the ones already there.
C28_AppendsNotLost ==
  [][ /\ (phase' \in {1, 2} /\ pc' \in {"collect", "returned"}) =>
           Len(results') = nyielded'
      /\ phase' = phase =>
           /\ Len(results') \in {Len(results), Len(results) + 1}
           /\ SubSeq(results', 1, Len(results)) = results
    ]_vars

C28_Witness ==
  /\ phase = 1
  /\ pc = "collect"
  /\ nyielded = 1
  /\ Len(results) = 1
  /\ \E t \in Tasks : st[t] \in {"running", "waiting"}


\* the future whose row is due next if rows follow the order of completion
OldestUnyielded == IF early # <<>> THEN Head(early) ELSE Head(late)

\* C29 (as claimed): the rows of the Phase-1 report are in completion order,
\* also for operations that had both finished before the driver started
\* collecting: each row appended is the row of the operation that finished
\* first among those not yet collected.
C29_RowsInCompletionOrder ==
  [][ (phase = 1 /\ Len(results') = Len(results) + 1) =>
        results'[Len(results')].file_path = items[OldestUnyielded]
    ]_vars

\* C29 (amended): the rows are in the order as_completed yields the futures:
\* first the ones that had finished when collecting started, in any order,
\* then the others in the order they finish.
C29_RowsInYieldOrder ==
  [][ /\ (phase = 1 /\ Len(results') = Len(results) + 1) =>
           IF early # <<>>
           THEN \E t \in Range(early) : results'[Len(results')].file_path = items[t]
           ELSE results'[Len(results')].file_path = items[Head(late)]
      /\ \A t \in Tasks :
           (phase' = phase /\ st[t] # "finished" /\ st'[t] = "finished") =>
             late' = Append(late, t)
    ]_vars

C29_Witness ==
  /\ phase = 1
  /\ pc = "collect"
  /\ nyielded = 1
  /\ early = <<1>>
  /\ results[1].file_path = 2


\* the calls executing an attempt (not sleeping in backoff)
Executing == {t \in Tasks : st[t] = "running"}

\* C30 (as claimed): no item stays queued while fewer than W operations are
\* running: whenever an item is queued and fewer than max_workers attempts
\* execute, a worker can start the head of the queue.
C30_NoItemQueuedBelowW ==
  (queue # <<>> /\ Cardinality(Executing) < max_workers) => ENABLED WorkerStart

\* C30 (amended): whenever an item is queued and fewer than max_workers calls
\* hold a worker (executing an attempt or sleeping in backoff), a worker can
\* start the head of the queue at once; an item is kept in the queue only
\* while max_workers calls hold the workers.
C30_WorkConserving ==
  /\ (queue # <<>> /\ Cardinality(InFlight) < max_workers) =>
       /\ ENABLED WorkerStart
       /\ st[Head(queue)] = "queued"
  /\ (queue # <<>> /\ ~ENABLED WorkerStart) => Cardinality(InFlight) = max_workers

C30_Witness ==
  /\ max_workers = 1
  /\ Len(items) = 2
  /\ st[1] = "finished"
  /\ queue = <<2>>


\* the calls sleeping in a backoff wait
InBackoff == {t \in Tasks : st[t] = "waiting"}

\* C31: a call keeps its worker during its backoff wait: the calls executing
\* an attempt and the calls waiting in backoff together never exceed
\* max_workers, and while max_workers calls wait in backoff no queued item
\* can start.
C31_BackoffKeepsWorker ==
  /\ Cardinality(Executing \cup InBackoff) <= max_workers
  /\ (queue # <<>> /\ Cardinality(InBackoff) = max_workers) => ~ENABLED WorkerStart

C31_Witness ==
  /\ queue # <<>>
  /\ Cardinality(InBackoff) = max_workers
  /\ phase = 1


\* C32: the phases are separated by a barrier: whenever a status query has
\* been submitted or started, every listed file has its row in the Phase-1
\* report, also the files whose upload finished first.
C32_PhaseBarrier ==
  (phase >= 2 /\ Len(items) > 0) =>
    /\ Len(df_results) = Len(listing)
    /\ \A f \in 1..Len(listing) :
         \E k \in 1..Len(df_results) : df_results[k].file_path = f

C32_Witness ==
  /\ phase = 2
  /\ Len(listing) = 2
  /\ df_results[2].status = "Ingestion Failed"
  /\ df_results[2].error.wrapper = "RetryError"
  /\ \E t \in Tasks : st[t] = "running"


\* the rows built so far by ingest_all_documents, and the report it returned
Phase1Rows == IF phase = 1 /\ pc # "returned" THEN results ELSE df_results

\* C33: every row of a Phase-1 report has status "Success" or "Ingestion
\* Failed", and its file_id is non-null exactly when the status is "Success".
C33_StatusAndFileIdAgree ==
  \A k \in 1..Len(Phase1Rows) :
    /\ Phase1Rows[k].status \in {"Success", "Ingestion Failed"}
    /\ (Phase1Rows[k].file_id # None) <=> (Phase1Rows[k].status = "Success")

C33_Witness ==
  /\ phase = 1
  /\ pc = "returned"
  /\ \E i, j \in 1..Len(df_results) :
       /\ df_results[i].status = "Success" /\ df_results[i].file_id # None
       /\ df_results[j].status = "Ingestion Failed" /\ df_results[j].file_id = None


\* the orders in which as_completed can yield the futures of a finished
\* phase: every permutation of the tasks (all of them may have finished
\* before it was called)
YieldOrders == {p \in [Tasks -> Tasks] : \A t \in Tasks : \E i \in Tasks : p[i] = t}

\* the as_completed loop of check_files_status run over the futures in the
\* order given: the rows it builds, or the exception that ends it
RECURSIVE StatusRows(_, _, _, _)
StatusRows(order, i, rows, r) ==
  IF i > Len(order) THEN [exc |-> NoExc, rows |-> rows]
  ELSE LET t == order[i]
       IN IF future[t].ok
          THEN StatusRows(order, i + 1,
                          Append(rows, StatusSuccessRow(items[t], future[t].val)),
                          future[t].val)
          ELSE IF r = Unbound
          THEN [exc |-> Exc("UnboundLocalError", 0), rows |-> <<>>]
          ELSE StatusRows(order, i + 1,
                          Append(rows, StatusFailureRow(items[t], r, future[t].exc)), r)

\* what check_files_status gives for that order: the exception it raises
\* and the set of rows of the merged report it returns
StatusReport(order) ==
  LET c == StatusRows(order, 1, <<>>, Unbound)
  IN IF c.exc # NoExc THEN [exc |-> c.exc, rows |-> {}]
     ELSE IF c.rows = <<>> THEN [exc |-> Exc("KeyError", 0), rows |-> {}]
     ELSE [exc |-> NoExc, rows |-> Range(LeftMerge(df_results, c.rows))]

\* C34 (as claimed): for one Phase-1 report and one outcome per status query,
\* check_files_status gives the same set of rows whatever the order in which
\* the queries complete: the run that was observed gave one of the possible
\* reports, and all the possible reports are equal.
C34_ReportIndependentOfOrder ==
  (phase = 2 /\ pc \in {"returned", "raised"} /\ Len(items) > 0) =>
    /\ [exc |-> raised, rows |-> Range(status_df)]
         \in {StatusReport(p) : p \in YieldOrders}
    /\ \A p, q \in YieldOrders : StatusReport(p) = StatusReport(q)


\* C35 (as claimed): when the Phase-1 report has no "Success" row (every
\* upload failed, or the directory was empty), check_files_status submits no
\* status query, raises nothing, and returns the Phase-1 rows, one merged
\* row each, with null status fields.
C35_NoSuccessNoQueries ==
  (phase = 2 /\ SuccessRows(df_results) = {}) =>
    /\ Len(items) = 0
    /\ pc \notin {"raising", "raised"}
    /\ pc = "returned" =>
         /\ Len(status_df) = Len(df_results)
         /\ \A k \in 1..Len(status_df) :
              /\ status_df[k].file_path = df_results[k].file_path
              /\ status_df[k].status = None
              /\ status_df[k].output = NullOutput


\* C36 (as claimed): get_or_create_collection never raises: after a failure
\* of the GET or of the PUT, the first request's connection failure
\* included, it returns a string describing the error; otherwise it returns
\* "<collection> exists" without a PUT when the name is listed and
\* "<collection> created" after exactly one PUT when it is not.
C36_CollectionNeverRaises ==
  /\ g_pc # "raised"
  /\ g_raised = NoExc
  /\ g_pc = "returned" =>
       IF g_e # NoExc
       THEN g_result = ErrorString(g_e, g_response)
       ELSE IF g_collection \in g_listed
       THEN g_result = CollectionExists(g_collection) /\ g_puts = 0
       ELSE g_result = CollectionCreated(g_collection) /\ g_puts = 1


\* ---- C37 ------------------------------------------------------------------
\* C37: for every Output that QATask.do_run can return, the one with
\* answer None included, do_evaluate_single_output returns without raising
\* a QaEvaluation whose matched and missing keywords partition the expected
\* keywords and whose passed flag holds exactly when at least half of the
\* keywords matched (always for an empty keyword list).
C37_Partitioned ==
  /\ Len(q_evaluation.matched_keywords) + Len(q_evaluation.missing_keywords) = Len(q_keywords)
  /\ Range(q_evaluation.matched_keywords) \cap Range(q_evaluation.missing_keywords) = {}
  /\ Range(q_evaluation.matched_keywords) \cup Range(q_evaluation.missing_keywords)
       = Range(q_keywords)

C37_EvaluationComposes ==
  /\ q_pc # "raised"
  /\ q_raised = NoExc
  /\ q_pc = "returned" =>
       /\ C37_Partitioned
       /\ q_evaluation.passed <=>
            (2 * Len(q_evaluation.matched_keywords) >= Len(q_keywords))
       /\ q_keywords = <<>> => q_evaluation.passed

====
